---- MODULE Spec2Model ----
(***************************************************************************)
(* A model of QRCodeTool (src/main.py): the screen-capture overlay         *)
(* (class CaptureScreen) and the history list of the main window (class    *)
(* QRApp: load_history, save_history, add_history, refresh_history,        *)
(* update_select_all_checkbox, toggle_all, delete_selected).               *)
(*                                                                         *)
(* Three specifications share the variables:                               *)
(*   SpecCapture  one capture overlay receiving mouse and key events;      *)
(*   Spec         the history store, its file and its list widget;         *)
(*   SpecLoad     load_history applied to files holding legacy entries.    *)
(***************************************************************************)
EXTENDS Integers, Sequences, FiniteSets

VARIABLES
    \* ---- CaptureScreen -------------------------------------------------
    start,        \* self.start, a point [x, y] in logical pixels
    end,          \* self.end
    selecting,    \* self.selecting
    dpr,          \* self.dpr, a fraction [num, den]
    visible,      \* the overlay is shown (False once close() has run)
    emitted,      \* what the last delivered event handed to self.callback
    cropCount,    \* how many times self.callback has been invoked so far
    lastEvent,    \* the last event delivered to the overlay, and the state it met
    \* ---- QRApp history -------------------------------------------------
    history,      \* self.history, oldest first
    file,         \* the content of HISTORY_FILE
    list,         \* self.list: the rows of the QListWidget, top row first
    chk_all,      \* check state of self.chk_all
    chk_enabled,  \* self.chk_all.isEnabled()
    outcome,      \* how the last operation ended
    failures,     \* how many writes of the file have failed so far
    last          \* the last operation, its inputs and the state it met

captureVars == <<start, end, selecting, dpr, visible, emitted, cropCount, lastEvent>>
historyVars == <<history, file, list, chk_all, chk_enabled, outcome, failures, last>>
vars == <<start, end, selecting, dpr, visible, emitted, cropCount, lastEvent,
          history, file, list, chk_all, chk_enabled, outcome, failures, last>>

(***************************************************************************)
(* Bounds of the model.                                                    *)
(***************************************************************************)
\* pointer coordinates are 0 and MinSize..MaxCoord, so that drags of 5, 6 and 7
\* pixels happen in both directions on both axes
MaxCoord == 7
\* the callback is invoked at most this many times in a modelled run
MaxCrops == 2

(***************************************************************************)
(*                           CaptureScreen                                 *)
(***************************************************************************)
\* rect.width() > 5 and rect.height() > 5
MinSize == 5

\* screen.devicePixelRatio() is a real number: the scale factors 1, 1.25, 1.5
\* and 2, each as a fraction
DprValues ==
    {[num |-> 1, den |-> 1], [num |-> 5, den |-> 4],
     [num |-> 3, den |-> 2], [num |-> 2, den |-> 1]}

Coords == {0} \cup (MinSize .. MaxCoord)
\* the positions an event may carry: a small grid, and the two corners of a
\* 100 x 50 drag
Points == [x : Coords, y : Coords] \cup {[x |-> 10, y |-> 10], [x |-> 110, y |-> 60]}

\* QPoint(): the null point
QPoint0 == [x |-> 0, y |-> 0]

\* QRect(topLeft, bottomRight): the corners are stored as they are given
QRect(p, q) == [x1 |-> p.x, y1 |-> p.y, x2 |-> q.x, y2 |-> q.y]

\* QRect.width(), QRect.height(): both corner pixels belong to the rectangle
width(r) == r.x2 - r.x1 + 1
height(r) == r.y2 - r.y1 + 1

\* QRect.normalized() of Qt 6: a rectangle of negative width or height has its
\* corners swapped and moved inwards by one pixel each
normalized(r) ==
    [x1 |-> IF r.x2 < r.x1 THEN r.x2 + 1 ELSE r.x1,
     x2 |-> IF r.x2 < r.x1 THEN r.x1 - 1 ELSE r.x2,
     y1 |-> IF r.y2 < r.y1 THEN r.y2 + 1 ELSE r.y1,
     y2 |-> IF r.y2 < r.y1 THEN r.y1 - 1 ELSE r.y2]

\* int(v * self.dpr): Python's int() cuts the fraction off, towards zero
scaled(v, d) ==
    IF v * d.num >= 0 THEN (v * d.num) \div d.den
                      ELSE -((-(v * d.num)) \div d.den)

\* real_rect = QRect(int(x*dpr), int(y*dpr), int(width*dpr), int(height*dpr))
real_rect(r, d) ==
    [x |-> scaled(r.x1, d), y |-> scaled(r.y1, d),
     width |-> scaled(width(r), d), height |-> scaled(height(r), d)]

\* the condition under which mouseReleaseEvent crops and calls back
accepts(r) == width(r) > MinSize /\ height(r) > MinSize

NoCrop == [x |-> -1, y |-> -1, width |-> -1, height |-> -1]

NoEvent == [kind |-> "none", button |-> "none", wasSelecting |-> FALSE]

Event(kind, button) ==
    [kind |-> kind, button |-> button, wasSelecting |-> selecting]

Buttons == {"left", "right"}
Keys == {"Escape", "other"}

\* CaptureScreen.__init__: a shown overlay that has seen no event
CaptureScreen ==
    /\ start = QPoint0
    /\ end = QPoint0
    /\ selecting = FALSE
    /\ dpr \in DprValues
    /\ visible = TRUE
    /\ emitted = NoCrop
    /\ cropCount = 0
    /\ lastEvent = NoEvent

mousePressEvent(button, p) ==
    /\ visible
    /\ lastEvent' = Event("press", button)
    /\ emitted' = NoCrop
    /\ IF button = "left"
         THEN /\ start' = p
              /\ end' = p
              /\ selecting' = TRUE
         ELSE UNCHANGED <<start, end, selecting>>
    /\ UNCHANGED <<dpr, visible, cropCount>>

mouseMoveEvent(p) ==
    /\ visible
    /\ lastEvent' = Event("move", "none")
    /\ emitted' = NoCrop
    /\ end' = IF selecting THEN p ELSE end
    /\ UNCHANGED <<start, selecting, dpr, visible, cropCount>>

\* raises: self.callback(cropped) ended in an exception, so that the
\* self.close() after it is not reached
mouseReleaseEvent(button, p, raises) ==
    /\ visible
    /\ lastEvent' = Event("release", button)
    /\ IF button = "left"
         THEN LET rect == normalized(QRect(start, p))
              IN /\ selecting' = FALSE
                 /\ end' = p
                 /\ IF accepts(rect)
                      THEN /\ cropCount < MaxCrops
                           /\ emitted' = real_rect(rect, dpr)
                           /\ cropCount' = cropCount + 1
                           /\ visible' = raises
                      ELSE /\ emitted' = NoCrop
                           /\ cropCount' = cropCount
                           /\ visible' = FALSE
         ELSE /\ emitted' = NoCrop
              /\ UNCHANGED <<end, selecting, visible, cropCount>>
    /\ UNCHANGED <<start, dpr>>

keyPressEvent(key) ==
    /\ visible
    /\ lastEvent' = Event("key", key)
    /\ emitted' = NoCrop
    /\ visible' = (key # "Escape")
    /\ UNCHANGED <<start, end, selecting, dpr, cropCount>>

(***************************************************************************)
(* C3: a press-drag-release gesture whose press and release positions      *)
(* differ by at most 5 logical pixels in x or in y emits no crop           *)
(* rectangle, and the overlay is dismissed.                                *)
(***************************************************************************)
Abs(n) == IF n < 0 THEN -n ELSE n

C3_SmallGestureEmitsNothing ==
    ( /\ lastEvent.kind = "release"
      /\ lastEvent.button = "left"
      /\ lastEvent.wasSelecting
      /\ (Abs(end.x - start.x) <= 5 \/ Abs(end.y - start.y) <= 5) )
    => (emitted = NoCrop /\ ~visible)

(***************************************************************************)
(* C4: the crop rectangle emitted by a gesture is                          *)
(*   x = floor(min(start.x, end.x) * scale),                               *)
(*   y = floor(min(start.y, end.y) * scale),                               *)
(*   width = floor(|end.x - start.x| * scale),                             *)
(*   height = floor(|end.y - start.y| * scale),                            *)
(* whatever the direction of the drag.                                     *)
(***************************************************************************)
Floor(v, d) == (v * d.num) \div d.den
Min(a, b) == IF a <= b THEN a ELSE b

C4_EmittedRectIsScaledDrag ==
    ( /\ lastEvent.kind = "release"
      /\ lastEvent.wasSelecting
      /\ emitted # NoCrop )
    => emitted = [x |-> Floor(Min(start.x, end.x), dpr),
                  y |-> Floor(Min(start.y, end.y), dpr),
                  width |-> Floor(Abs(end.x - start.x), dpr),
                  height |-> Floor(Abs(end.y - start.y), dpr)]

(***************************************************************************)
(* C5: over any sequence of events delivered to one overlay, a crop is     *)
(* emitted at most once, and only by a left-button release that finds the  *)
(* overlay selecting (after a left-button press); a release that finds it  *)
(* idle emits nothing, and neither does a key.                             *)
(***************************************************************************)
C5_CropOnlyFromSelectingOnce ==
    /\ cropCount <= 1
    /\ emitted # NoCrop =>
          ( /\ lastEvent.kind = "release"
            /\ lastEvent.button = "left"
            /\ lastEvent.wasSelecting )
    /\ (lastEvent.kind = "release" /\ ~lastEvent.wasSelecting) => emitted = NoCrop
    /\ lastEvent.kind = "key" => emitted = NoCrop

(***************************************************************************)
(*                          QRApp: the history                             *)
(***************************************************************************)
\* self.history holds at most this many entries in a modelled run
MaxHist == 3
\* at most this many writes of the file fail in a modelled run
MaxFailures == 1
\* a legacy text has at most this many characters
MaxText == 3
\* a history file read by SpecLoad holds at most this many items
MaxItems == 2

\* A text is a sequence of characters. The legacy labels of load_history all end
\* in the same full-width colon, written ":" here: "c" ":" stands for the
\* screen-capture label, "i" ":" for the image-decode label and "g" ":" for
\* the generation label.
Chars == {"c", "i", "g", ":", "x"}
CapturePrefix == <<"c", ":">>
ImagePrefix == <<"i", ":">>
GeneratePrefix == <<"g", ":">>

\* the source tags: screen capture, image decode, generation, unknown
SourceCapture == "capture"
SourceImage == "image"
SourceGenerate == "generate"
SourceUnknown == "unknown"

\* the sources add_history is called with, by generate_qr and by on_capture
\* (open_decode passes the third, which the files of InitFiles bring in)
AddSources == {SourceGenerate, SourceCapture}
\* what they pass as content: a text that is not empty
Contents == {<<"c", ":", "x">>}
\* datetime.now(), to the second
Times == {1}

\* pat in text
Contains(text, pat) ==
    \E i \in 1 .. (Len(text) - Len(pat) + 1) : SubSeq(text, i, i + Len(pat) - 1) = pat

\* text.replace(pat, ""): every occurrence of pat is cut out, left to right
RECURSIVE Replace(_, _)
Replace(text, pat) ==
    IF Len(text) < Len(pat) THEN text
    ELSE IF SubSeq(text, 1, Len(pat)) = pat
           THEN Replace(SubSeq(text, Len(pat) + 1, Len(text)), pat)
           ELSE <<Head(text)>> \o Replace(Tail(text), pat)

\* an entry of self.history: the dict {"source", "content", "time"}
Entry(source, content, time) == [source |-> source, content |-> content, time |-> time]

\* An item of the JSON array in the file. kind says which keys it has:
\*   "new"             "source" and "content" (and "time")
\*   "legacy"          "text", a string, and "time" (time = 0: no "time" key)
\*   "legacy_badtext"  "text", not a string
\*   "other"           not a dict, or a dict with none of these keys
Item(kind, source, content, text, time) ==
    [kind |-> kind, source |-> source, content |-> content, text |-> text, time |-> time]

\* json.dump of one entry, json.load of one new-format item
NewItem(e) == Item("new", e.source, e.content, <<>>, e.time)
EntryOf(item) == Entry(item.source, item.content, item.time)

LegacyItem(text, time) == Item("legacy", "", <<>>, text, time)
BadTextItem == Item("legacy_badtext", "", <<>>, <<>>, 0)
OtherItem == Item("other", "", <<>>, <<>>, 0)

\* the file: missing, not parseable as an array ("garbage"), or an array of items
File(kind, items) == [kind |-> kind, items |-> items]
MissingFile == File("missing", <<>>)
GarbageFile == File("garbage", <<>>)
ListFile(items) == File("list", items)

\* load_history, the branch for an item with "text": source and content
migrate(text, time, now) ==
    LET t == IF time = 0 THEN now ELSE time
    IN IF Contains(text, CapturePrefix)
         THEN Entry(SourceCapture, Replace(text, CapturePrefix), t)
       ELSE IF Contains(text, ImagePrefix)
         THEN Entry(SourceImage, Replace(text, ImagePrefix), t)
       ELSE IF Contains(text, GeneratePrefix)
         THEN Entry(SourceGenerate, Replace(text, GeneratePrefix), t)
       ELSE Entry(SourceUnknown, text, t)

\* a variant of convert that strips the legacy labels from the content of
\* new-format items too
RECURSIVE convert_strips(_, _)
convert_strips(items, now) ==
    IF items = <<>> THEN <<>>
    ELSE LET item == Head(items)
             rest == convert_strips(Tail(items), now)
         IN IF item.kind = "new"
              THEN <<migrate(item.content, item.time, now)>> \o rest
            ELSE IF item.kind = "legacy"
              THEN <<migrate(item.text, item.time, now)>> \o rest
              ELSE rest

\* load_history, the loop over the items: new-format items are kept, items
\* with "text" are migrated, the others are skipped
RECURSIVE convert(_, _)
convert(items, now) ==
    IF items = <<>> THEN <<>>
    ELSE LET item == Head(items)
             rest == convert(Tail(items), now)
         IN IF item.kind = "new" THEN <<EntryOf(item)>> \o rest
            ELSE IF item.kind = "legacy"
                   THEN <<migrate(item.text, item.time, now)>> \o rest
                   ELSE rest

\* what makes the try block of load_history raise: json.load on a file that
\* is no JSON, the loop over a value that cannot be iterated, and the "in"
\* or the replace on a "text" that is no string
load_raises(f) ==
    \/ f.kind = "garbage"
    \/ \E i \in 1 .. Len(f.items) : f.items[i].kind = "legacy_badtext"

\* load_history: the store, and whether an exception leaves the function
\* (the bare except returns [] instead)
load_history(f, now) ==
    IF f.kind = "missing" THEN [store |-> <<>>, raised |-> FALSE]
    ELSE IF load_raises(f) THEN [store |-> <<>>, raised |-> FALSE]
    ELSE [store |-> convert(f.items, now), raised |-> FALSE]

\* a variant of save_history that appends the newest entry to the array in
\* the file instead of writing the whole history
save_history_append(h, f, fail) ==
    IF fail = "open" THEN [file |-> f, raised |-> TRUE]
    ELSE IF fail = "dump" THEN [file |-> GarbageFile, raised |-> TRUE]
    ELSE IF fail = "close" THEN [file |-> GarbageFile, raised |-> FALSE]
    ELSE [file |-> ListFile(f.items \o (IF h = <<>> THEN <<>> ELSE <<NewItem(h[Len(h)])>>)),
          raised |-> FALSE]

\* save_history: json.dump(self.history, open(HISTORY_FILE, "w", ...)). The
\* file afterwards, and whether an exception leaves the function.
\*   fail = "open":  open() raises (no permission, no directory); the file is
\*                   as before;
\*   fail = "dump":  the file is truncated, and a write made during json.dump
\*                   raises, part-way;
\*   fail = "close": the file is truncated and the text stays in the buffer
\*                   of the file object, which is never closed explicitly; the
\*                   write made when the object is finalized fails (disk full)
\*                   and that error is dropped by the interpreter.
save_history(h, f, fail) ==
    IF fail = "open" THEN [file |-> f, raised |-> TRUE]
    ELSE IF fail = "dump" THEN [file |-> GarbageFile, raised |-> TRUE]
    ELSE IF fail = "close" THEN [file |-> GarbageFile, raised |-> FALSE]
    ELSE [file |-> ListFile([i \in 1 .. Len(h) |-> NewItem(h[i])]), raised |-> FALSE]

Failures == {"none", "open", "dump", "close"}

\* a row of self.list: the entry kept under Qt.UserRole and the check state
Row(h, checked) == [data |-> h, checked |-> checked]

\* refresh_history: a row per entry, newest first, none checked
refresh_history(h) ==
    [i \in 1 .. Len(h) |-> Row(h[Len(h) + 1 - i], FALSE)]

\* the rows (counted from 0, as self.list.item(i)) that are checked
CheckedRows(rows) == {i \in 0 .. (Len(rows) - 1) : rows[i + 1].checked}

\* a variant of update_select_all_checkbox that shows Checked as soon as one
\* row is checked
update_select_all_checkbox_any(rows) ==
    LET count == Len(rows)
        checked_count == Cardinality(CheckedRows(rows))
    IN IF count = 0 THEN [state |-> "Unchecked", enabled |-> FALSE]
       ELSE IF checked_count = 0 THEN [state |-> "Unchecked", enabled |-> TRUE]
       ELSE [state |-> "Checked", enabled |-> TRUE]

\* update_select_all_checkbox: the check state and the enabled flag it sets
update_select_all_checkbox(rows) ==
    LET count == Len(rows)
        checked_count == Cardinality(CheckedRows(rows))
    IN IF count = 0 THEN [state |-> "Unchecked", enabled |-> FALSE]
       ELSE IF checked_count = 0 THEN [state |-> "Unchecked", enabled |-> TRUE]
       ELSE IF checked_count = count THEN [state |-> "Checked", enabled |-> TRUE]
       ELSE [state |-> "PartiallyChecked", enabled |-> TRUE]

\* the record of the last operation: its name, for delete_selected the rows
\* that were checked and len(self.history) when it was called, for add_history
\* the entry made of its arguments, and the way the write failed
NoEntry == Entry("", <<>>, 0)
Op(op, rows, n, entry, fail) ==
    [op |-> op, rows |-> rows, n |-> n, entry |-> entry, fail |-> fail]

\* the list is rebuilt from h and the select-all checkbox follows it
Refreshed(h) ==
    /\ list' = refresh_history(h)
    /\ chk_all' = update_select_all_checkbox(refresh_history(h)).state
    /\ chk_enabled' = update_select_all_checkbox(refresh_history(h)).enabled

\* the files a run may start from
InitFiles ==
    {MissingFile, GarbageFile, ListFile(<<>>),
     ListFile(<<NewItem(Entry(SourceImage, <<"x">>, 1))>>),
     ListFile(<<LegacyItem(<<"g", ":", "x">>, 1)>>),
     ListFile(<<LegacyItem(<<"x">>, 0), OtherItem>>),
     ListFile(<<NewItem(Entry(SourceImage, <<"x">>, 1)), BadTextItem>>)}

\* QRApp.__init__: the history is loaded and the list is built from it
QRApp(now) ==
    /\ history = load_history(file, now).store
    /\ list = refresh_history(history)
    /\ chk_all = update_select_all_checkbox(list).state
    /\ chk_enabled = update_select_all_checkbox(list).enabled
    /\ outcome = IF load_history(file, now).raised THEN "raised" ELSE "ok"
    /\ failures = 0
    /\ last = Op("load_history", {}, 0, NoEntry, "none")

\* the overlay side while only the history is looked at
CaptureIdle ==
    /\ start = QPoint0
    /\ end = QPoint0
    /\ selecting = FALSE
    /\ dpr = [num |-> 1, den |-> 1]
    /\ visible = FALSE
    /\ emitted = NoCrop
    /\ cropCount = 0
    /\ lastEvent = NoEvent

Init ==
    /\ file \in InitFiles
    /\ \E now \in Times : QRApp(now)
    /\ CaptureIdle

\* the program is started again on the file as it is now
Restart(now) ==
    /\ history' = load_history(file, now).store
    /\ Refreshed(load_history(file, now).store)
    /\ outcome' = IF load_history(file, now).raised THEN "raised" ELSE "ok"
    /\ last' = Op("load_history", {}, 0, NoEntry, "none")
    /\ UNCHANGED <<file, failures>>

\* fail # "none" only while the run has failures left
Failing(fail) ==
    /\ fail # "none" => failures < MaxFailures
    /\ failures' = IF fail = "none" THEN failures ELSE failures + 1

add_history(source, content, now, fail) ==
    /\ Len(history) < MaxHist
    /\ Failing(fail)
    /\ LET appended == Append(history, Entry(source, content, now))
           saved == save_history(appended, file, fail)
       IN /\ history' = appended
          /\ file' = saved.file
          /\ IF saved.raised
               THEN /\ outcome' = "raised"
                    /\ UNCHANGED <<list, chk_all, chk_enabled>>
               ELSE /\ outcome' = "ok"
                    /\ Refreshed(appended)
    /\ last' = Op("add_history", {}, 0, Entry(source, content, now), fail)

\* the user checks or unchecks row i: itemChanged, on_item_changed
on_item_changed(i) ==
    /\ i \in 0 .. (Len(list) - 1)
    /\ LET rows == [list EXCEPT ![i + 1].checked = ~list[i + 1].checked]
       IN /\ list' = rows
          /\ chk_all' = update_select_all_checkbox(rows).state
          /\ chk_enabled' = update_select_all_checkbox(rows).enabled
    /\ outcome' = "ok"
    /\ last' = Op("on_item_changed", {}, 0, NoEntry, "none")
    /\ UNCHANGED <<history, file, failures>>

\* the user clicks the select-all checkbox, which takes clicks only when enabled
toggle_all(checked) ==
    /\ chk_enabled
    /\ list' = [i \in 1 .. Len(list) |-> Row(list[i].data, checked)]
    /\ chk_all' = IF checked THEN "Checked" ELSE "Unchecked"
    /\ outcome' = "ok"
    /\ last' = Op("toggle_all", {}, 0, NoEntry, "none")
    /\ UNCHANGED <<history, file, chk_enabled, failures>>

\* a variant of history_index that forgets that the list is shown newest first
history_index_unreversed(i, n) == i

\* history_index = len(self.history) - 1 - i
history_index(i, n) == n - 1 - i

\* items_to_delete, as gathered by the first loop of delete_selected
items_to_delete(rows, n) == {history_index(i, n) : i \in CheckedRows(rows)}

\* a variant of nothing_selected that never takes the early return
nothing_selected_never(items) == FALSE

\* if not items_to_delete
nothing_selected(items) == items = {}

\* items_to_delete.sort(reverse=True)
RECURSIVE sort_reverse(_)
sort_reverse(S) ==
    IF S = {} THEN <<>>
    ELSE LET m == CHOOSE x \in S : \A y \in S : y <= x
         IN <<m>> \o sort_reverse(S \ {m})

\* del self.history[idx]
del(h, idx) == [j \in 1 .. (Len(h) - 1) |-> IF j <= idx THEN h[j] ELSE h[j + 1]]

\* for idx in items_to_delete: if 0 <= idx < len(self.history): del ...
RECURSIVE delete_each(_, _)
delete_each(h, idxs) ==
    IF idxs = <<>> THEN h
    ELSE LET idx == Head(idxs)
         IN delete_each(IF 0 <= idx /\ idx < Len(h) THEN del(h, idx) ELSE h, Tail(idxs))

delete_selected(fail) ==
    LET items == items_to_delete(list, Len(history))
    IN IF nothing_selected(items)
         THEN /\ fail = "none"
              /\ outcome' = "nothing_selected"
              /\ last' = Op("delete_selected", CheckedRows(list), Len(history), NoEntry, "none")
              /\ UNCHANGED <<history, file, list, chk_all, chk_enabled, failures>>
         ELSE LET remaining == delete_each(history, sort_reverse(items))
                  saved == save_history(remaining, file, fail)
              IN /\ Failing(fail)
                 /\ history' = remaining
                 /\ file' = saved.file
                 /\ IF saved.raised
                      THEN /\ outcome' = "raised"
                           /\ UNCHANGED <<list, chk_all, chk_enabled>>
                      ELSE /\ outcome' = "ok"
                           /\ Refreshed(remaining)
                 /\ last' = Op("delete_selected", CheckedRows(list), Len(history), NoEntry, fail)

Next ==
    \/ \E s \in AddSources, c \in Contents, now \in Times, f \in Failures :
          add_history(s, c, now, f) /\ UNCHANGED captureVars
    \/ \E i \in 0 .. (MaxHist - 1) : on_item_changed(i) /\ UNCHANGED captureVars
    \/ \E c \in BOOLEAN : toggle_all(c) /\ UNCHANGED captureVars
    \/ \E f \in Failures : delete_selected(f) /\ UNCHANGED captureVars
    \/ \E now \in Times : Restart(now) /\ UNCHANGED captureVars

Spec == Init /\ [][Next]_vars

(***************************************************************************)
(* C1: delete_selected, called on a store of n entries with the rows S     *)
(* checked (each row of S below n, so that n - 1 - i is a storage index),  *)
(* removes exactly the entries at the storage indices {n - 1 - i : i in    *)
(* S}: the store afterwards holds the other entries in their order, and    *)
(* is shorter by the number of checked rows.                               *)
(***************************************************************************)
\* the storage indices (from 0) that stay, and the k-th of them (k from 1)
KeptIndices(n, S) == {j \in 0 .. (n - 1) : \A i \in S : j # n - 1 - i}
KthKept(n, S, k) ==
    CHOOSE j \in KeptIndices(n, S) : Cardinality({m \in KeptIndices(n, S) : m < j}) = k - 1

C1_DeleteRemovesCheckedRows ==
    [][ ( /\ last'.op = "delete_selected"
          /\ CheckedRows(list) # {}
          /\ \A i \in CheckedRows(list) : i < Len(history) )
        => LET n == Len(history)
               S == CheckedRows(list)
           IN /\ Len(history') = n - Cardinality(S)
              /\ \A k \in 1 .. Len(history') : history'[k] = history[KthKept(n, S, k) + 1]
      ]_vars

\* rows 0 and 2 of a 3-entry store were deleted, and one entry is left
C1_Witness ==
    /\ last.op = "delete_selected"
    /\ last.rows = {0, 2}
    /\ last.n = 3
    /\ Len(history) = 1
    /\ outcome = "ok"

(***************************************************************************)
(* C2: in every state the select-all checkbox is Checked iff there is a    *)
(* row and every row is checked, Unchecked iff no row is checked (or there *)
(* is none), PartiallyChecked otherwise, and it is disabled exactly when   *)
(* the list has no row.                                                    *)
(***************************************************************************)
C2_SelectAllMirrorsRows ==
    LET total == Len(list)
        selected == Cardinality({i \in 1 .. Len(list) : list[i].checked})
    IN /\ chk_all = "Checked" <=> (total > 0 /\ selected = total)
       /\ chk_all = "Unchecked" <=> (total = 0 \/ selected = 0)
       /\ chk_all = "PartiallyChecked" <=> (0 < selected /\ selected < total)
       /\ chk_enabled <=> total > 0

\* a row event left some but not all of three rows checked
C2_Witness ==
    /\ last.op = "on_item_changed"
    /\ Len(list) = 3
    /\ Cardinality(CheckedRows(list)) = 2
    /\ chk_all = "PartiallyChecked"

(***************************************************************************)
(* C6: after an add_history, and after a delete_selected with a checked    *)
(* row, whose write met no error, the file holds exactly the in-memory     *)
(* history: the same entries in the same order.                            *)
(***************************************************************************)
C6_FileHoldsHistoryAfterMutation ==
    ( /\ last.op \in {"add_history", "delete_selected"}
      /\ last.op = "delete_selected" => last.rows # {}
      /\ last.fail = "none" )
    => ( /\ file.kind = "list"
         /\ Len(file.items) = Len(history)
         /\ \A i \in 1 .. Len(history) :
              /\ file.items[i].kind = "new"
              /\ file.items[i].source = history[i].source
              /\ file.items[i].content = history[i].content
              /\ file.items[i].time = history[i].time )

\* a deletion that left two entries has been written
C6_Witness ==
    /\ last.op = "delete_selected"
    /\ last.rows # {}
    /\ last.fail = "none"
    /\ Len(history) = 2
    /\ file.kind = "list"

(***************************************************************************)
(* C7: after an add_history(source, content) whose write met no error,     *)
(* load_history on the file gives a store whose last entry has the         *)
(* source, content and time of the appended entry, and whose earlier       *)
(* entries are the store before the append, in the same order.             *)
(***************************************************************************)
C7_AppendThenLoadRoundTrip ==
    [][ (last'.op = "add_history" /\ last'.fail = "none")
        => \A now \in Times :
             LET loaded == load_history(file', now).store
             IN /\ ~load_history(file', now).raised
                /\ Len(loaded) = Len(history) + 1
                /\ SubSeq(loaded, 1, Len(history)) = history
                /\ loaded[Len(loaded)].source = last'.entry.source
                /\ loaded[Len(loaded)].content = last'.entry.content
                /\ loaded[Len(loaded)].time = last'.entry.time
      ]_vars

\* an entry with a legacy label inside its content was appended to a store of
\* two and written
C7_Witness ==
    /\ last.op = "add_history"
    /\ last.fail = "none"
    /\ last.entry.content = <<"c", ":", "x">>
    /\ Len(history) = 3
    /\ file.kind = "list"
    /\ Len(file.items) = 3

(***************************************************************************)
(* C9: a write failure in add_history or delete_selected ends the          *)
(* operation in an error its caller sees; a failure while loading          *)
(* (missing file, malformed content) gives an empty store and no error.    *)
(***************************************************************************)
C9_WriteFailureSurfacesLoadFailureEmpty ==
    /\ (last.op \in {"add_history", "delete_selected"} /\ last.fail # "none")
         => outcome = "raised"
    /\ (last.op = "load_history" /\ (file.kind = "missing" \/ load_raises(file)))
         => (history = <<>> /\ outcome = "ok")

(***************************************************************************)
(* C10: delete_selected with no row checked changes neither the history,   *)
(* nor the file, nor the list and its check states, and ends as "nothing   *)
(* selected", which a deletion with a checked row never does.              *)
(***************************************************************************)
C10_DeleteNothingIsNoOp ==
    [][ /\ (last'.op = "delete_selected" /\ CheckedRows(list) = {})
           => ( /\ history' = history
                /\ file' = file
                /\ list' = list
                /\ chk_all' = chk_all
                /\ chk_enabled' = chk_enabled
                /\ outcome' = "nothing_selected" )
        /\ (last'.op = "delete_selected" /\ CheckedRows(list) # {})
           => outcome' # "nothing_selected"
      ]_vars

\* delete_selected was called on a store of two entries with no row checked
C10_Witness ==
    /\ last.op = "delete_selected"
    /\ last.rows = {}
    /\ last.n = 2
    /\ Len(history) = 2
    /\ outcome = "nothing_selected"

(***************************************************************************)
(* C11: between operations, failed writes included, the displayed list is  *)
(* the in-memory history in reverse order: it has len(history) rows and    *)
(* row i shows history[len(history) - 1 - i].                              *)
(***************************************************************************)
C11_ListIsReversedHistory ==
    /\ Len(list) = Len(history)
    /\ \A i \in 0 .. (Len(list) - 1) : list[i + 1].data = history[Len(history) - i]

(***************************************************************************)
(* load_history on files of legacy entries                                 *)
(***************************************************************************)
LegacyTexts == UNION {[1 .. k -> Chars] : k \in 0 .. MaxText}
LegacyItems == {LegacyItem(text, 1) : text \in LegacyTexts}
LegacyFiles == {ListFile(items) : items \in UNION {[1 .. k -> LegacyItems] : k \in 1 .. MaxItems}}

\* the program has not been started yet: nothing is loaded
InitLoad ==
    /\ file \in LegacyFiles
    /\ history = <<>>
    /\ list = <<>>
    /\ chk_all = "Unchecked"
    /\ chk_enabled = FALSE
    /\ outcome = "ok"
    /\ failures = 0
    /\ last = Op("none", {}, 0, NoEntry, "none")
    /\ CaptureIdle

NextLoad == \E now \in Times : Restart(now) /\ UNCHANGED captureVars

SpecLoad == InitLoad /\ [][NextLoad]_vars

(***************************************************************************)
(* C8: load_history migrates every legacy entry: a text that is one of the *)
(* three labels followed by a content c becomes source = that label's tag  *)
(* and content = c exactly; a text that starts with none of them becomes   *)
(* source = unknown with the whole text as content; no legacy entry is     *)
(* dropped or reordered.                                                   *)
(***************************************************************************)
StartsWith(text, prefix) ==
    Len(text) >= Len(prefix) /\ SubSeq(text, 1, Len(prefix)) = prefix
After(text, prefix) == SubSeq(text, Len(prefix) + 1, Len(text))

C8_LegacyPrefixMigration ==
    last.op = "load_history"
    => /\ Len(history) = Len(file.items)
       /\ \A i \in 1 .. Len(file.items) :
            LET text == file.items[i].text
                e == history[i]
            IN IF StartsWith(text, CapturePrefix)
                 THEN e.source = SourceCapture /\ e.content = After(text, CapturePrefix)
               ELSE IF StartsWith(text, ImagePrefix)
                 THEN e.source = SourceImage /\ e.content = After(text, ImagePrefix)
               ELSE IF StartsWith(text, GeneratePrefix)
                 THEN e.source = SourceGenerate /\ e.content = After(text, GeneratePrefix)
               ELSE e.source = SourceUnknown /\ e.content = text

(***************************************************************************)
(* The specification of the capture overlay                                *)
(***************************************************************************)
\* the history side while only the overlay is looked at
HistoryIdle ==
    /\ history = <<>>
    /\ file = MissingFile
    /\ list = <<>>
    /\ chk_all = "Unchecked"
    /\ chk_enabled = FALSE
    /\ outcome = "ok"
    /\ failures = 0
    /\ last = Op("none", {}, 0, NoEntry, "none")

NextCapture ==
    \/ \E b \in Buttons, p \in Points : mousePressEvent(b, p) /\ UNCHANGED historyVars
    \/ \E p \in Points : mouseMoveEvent(p) /\ UNCHANGED historyVars
    \/ \E b \in Buttons, p \in Points, r \in BOOLEAN :
          mouseReleaseEvent(b, p, r) /\ UNCHANGED historyVars
    \/ \E k \in Keys : keyPressEvent(k) /\ UNCHANGED historyVars

InitCapture == CaptureScreen /\ HistoryIdle

SpecCapture == InitCapture /\ [][NextCapture]_vars

====
